---- MODULE Spec2Model ----
(***************************************************************************)
(* Forward kinematics of the 4-joint arm of robot3D_basic.py.              *)
(*                                                                         *)
(* Angles are degrees.  The trigonometric functions are modelled exactly   *)
(* at the multiples of 90 degrees (cos, sin in {-1, 0, 1}); numpy returns  *)
(* these values up to a rounding residue of about 1e-16.  Link lengths are *)
(* non-negative integers.  Matrices are tuples of rows.                    *)
(***************************************************************************)
EXTENDS Integers, Sequences, FiniteSets, TLC

\* ------------------------------------------------------------------ bounds
MaxQuarter == 3      \* angles of the chain solver: 0, 90, ..., 90 * MaxQuarter
MaxLen == 1          \* link lengths of the chain solver: 0 .. MaxLen
MaxQuarterS == 1     \* angles of the long-link solver runs
MaxLenS == 4         \* link lengths of the long-link solver runs
MaxQuarterW == 1     \* angles of the wide-arity solver runs
MaxLenW == 1         \* link lengths of the wide-arity solver runs
ArityDelta == 1      \* the angle list has 4 - ArityDelta .. 4 + ArityDelta entries
MaxTurn == 3         \* RotationMatrix angles: -90 * MaxTurn .. 90 * MaxTurn

\* ------------------------------------------------------- program constants
NumTicks == 1000     \* range(0, 1000, 1)

VARIABLES
  \* forward_kinematics
  pc, Phi_list, link_lengths, i, T, T_list, ret,
  \* RotationMatrix
  rpc, theta, axis_name, c, s, rotation_matrix, rret,
  \* chain composition over a 2-joint sub-chain
  opc, joints, e_fwd, e_rev,
  \* __main__ and main()
  apc, phi, phi1, phi2, phi3, phi4, trace, frames, scene

fkVars == <<pc, Phi_list, link_lengths, i, T, T_list, ret>>
rotVars == <<rpc, theta, axis_name, c, s, rotation_matrix, rret>>
ordVars == <<opc, joints, e_fwd, e_rev>>
animVars == <<apc, phi, phi1, phi2, phi3, phi4, trace, frames, scene>>
vars == <<fkVars, rotVars, ordVars, animVars>>

\* ------------------------------------------------------------ trigonometry
Mod360(a) == a % 360

CosDeg(a) ==
  CASE Mod360(a) = 0 -> 1
    [] Mod360(a) = 90 -> 0
    [] Mod360(a) = 180 -> -1
    [] Mod360(a) = 270 -> 0

SinDeg(a) ==
  CASE Mod360(a) = 0 -> 0
    [] Mod360(a) = 90 -> 1
    [] Mod360(a) = 180 -> 0
    [] Mod360(a) = 270 -> -1

\* ---------------------------------------------------------- RotationMatrix
Unbound == <<>>      \* the local rotation_matrix before any branch assigns it

RotX(cc, ss) == << <<1, 0, 0>>, <<0, cc, -ss>>, <<0, ss, cc>> >>

RotYBadSign(cc, ss) == << <<cc, 0, ss>>, <<0, 1, 0>>, <<ss, 0, cc>> >>

RotY(cc, ss) == << <<cc, 0, ss>>, <<0, 1, 0>>, <<-ss, 0, cc>> >>

RotZ(cc, ss) == << <<cc, -ss, 0>>, <<ss, cc, 0>>, <<0, 0, 1>> >>

\* if axis_name == 'x': ...
IfX(ax, cc, ss, rm) == IF ax = "x" THEN RotX(cc, ss) ELSE rm

IfYElseZ(ax, cc, ss, rm) == IF ax = "y" THEN RotY(cc, ss) ELSE RotZ(cc, ss)

\* if axis_name == 'y': ... elif axis_name == 'z': ...
IfYElifZ(ax, cc, ss, rm) ==
  IF ax = "y" THEN RotY(cc, ss)
  ELSE IF ax = "z" THEN RotZ(cc, ss)
  ELSE rm

InitialEye == << <<1, 0, 0>>, <<0, 1, 0>>, <<0, 0, 1>> >>

\* rotation_matrix is not assigned before the dispatch
InitialRotationMatrix == Unbound

\* the whole call, for callers that pass one of 'x', 'y', 'z'
RotationMatrix(th, ax) ==
  IfYElifZ(ax, CosDeg(th), SinDeg(th),
           IfX(ax, CosDeg(th), SinDeg(th), InitialRotationMatrix))

\* ------------------------------------------------------------ numpy pieces
Eye4 == << <<1, 0, 0, 0>>, <<0, 1, 0, 0>>, <<0, 0, 1, 0>>, <<0, 0, 0, 1>> >>

MultiplyRow(A, B, r) ==
  <<A[r][1] * B[r][1], A[r][2] * B[r][2], A[r][3] * B[r][3], A[r][4] * B[r][4]>>

Multiply(A, B) ==
  <<MultiplyRow(A, B, 1), MultiplyRow(A, B, 2), MultiplyRow(A, B, 3), MultiplyRow(A, B, 4)>>

DotEntry(A, B, r, k) ==
  A[r][1] * B[1][k] + A[r][2] * B[2][k] + A[r][3] * B[3][k] + A[r][4] * B[4][k]

DotRow(A, B, r) ==
  <<DotEntry(A, B, r, 1), DotEntry(A, B, r, 2), DotEntry(A, B, r, 3), DotEntry(A, B, r, 4)>>

\* np.dot on 4x4 matrices
Dot(A, B) == <<DotRow(A, B, 1), DotRow(A, B, 2), DotRow(A, B, 3), DotRow(A, B, 4)>>

\* T_new = np.eye(4); T_new[:3, :3] = R; T_new[:3, 3] = [L, 0, 0]
TNew(R, L) ==
  << <<R[1][1], R[1][2], R[1][3], L>>,
     <<R[2][1], R[2][2], R[2][3], 0>>,
     <<R[3][1], R[3][2], R[3][3], 0>>,
     Eye4[4] >>

LoopBodyLeft(Tm, angle, axis, L) == Dot(TNew(RotationMatrix(angle, axis), L), Tm)

\* one iteration of the for loop: the new value of T
LoopBody(Tm, angle, axis, L) == Dot(Tm, TNew(RotationMatrix(angle, axis), L))

ColumnTwo(M) == <<M[1][3], M[2][3], M[3][3]>>

\* M[:3, 3]
Position(M) == <<M[1][4], M[2][4], M[3][4]>>

axes == <<"z", "y", "x", "z">>

Min(a, b) == IF a <= b THEN a ELSE b

\* number of pairs zip(Phi_list, axes) yields
ZipLen(P) == Min(Len(P), Len(axes))

\* ------------------------------------------------------ forward_kinematics
Angles == {90 * q : q \in 0..MaxQuarter}
AnglesS == {90 * q : q \in 0..MaxQuarterS}
AnglesW == {90 * q : q \in 0..MaxQuarterW}
Arities == (Len(axes) - ArityDelta)..(Len(axes) + ArityDelta)
NoResult == <<>>

Enter(P, Ls) ==
  /\ Phi_list' = P
  /\ link_lengths' = Ls
  /\ T' = Eye4
  /\ T_list' = <<Eye4>>
  /\ i' = 0
  /\ pc' = "loop"
  /\ UNCHANGED ret

\* forward_kinematics(Phi_list, L1, L2, L3, L4) with four angles
Call ==
  /\ pc = "idle"
  /\ \E P \in [1..Len(axes) -> Angles], Ls \in [1..4 -> 0..MaxLen] : Enter(P, Ls)
  /\ UNCHANGED <<rotVars, ordVars, animVars>>

\* the same call with longer links
CallLong ==
  /\ pc = "idle"
  /\ \E P \in [1..Len(axes) -> AnglesS], Ls \in [1..4 -> 0..MaxLenS] : Enter(P, Ls)
  /\ UNCHANGED <<rotVars, ordVars, animVars>>

\* the same call with an angle list of any length in Arities
CallWide ==
  /\ pc = "idle"
  /\ \E n \in Arities : \E P \in [1..n -> AnglesW], Ls \in [1..4 -> 0..MaxLenW] :
        Enter(P, Ls)
  /\ UNCHANGED <<rotVars, ordVars, animVars>>

Iterate ==
  /\ pc = "loop"
  /\ i < ZipLen(Phi_list)
  /\ T' = LoopBody(T, Phi_list[i + 1], axes[i + 1], link_lengths[i + 1])
  /\ T_list' = Append(T_list, T')
  /\ i' = i + 1
  /\ UNCHANGED <<pc, Phi_list, link_lengths, ret>>
  /\ UNCHANGED <<rotVars, ordVars, animVars>>

\* return T_list[1], T_list[2], T_list[3], T_list[4], T_list[-1][:3, 3]
Return ==
  /\ pc = "loop"
  /\ i = ZipLen(Phi_list)
  /\ IF Len(T_list) >= 5
       THEN /\ pc' = "returned"
            /\ ret' = [poses |-> <<T_list[2], T_list[3], T_list[4], T_list[5]>>,
                       e |-> Position(T_list[Len(T_list)])]
       ELSE /\ pc' = "IndexError"
            /\ ret' = NoResult
  /\ UNCHANGED <<Phi_list, link_lengths, i, T, T_list>>
  /\ UNCHANGED <<rotVars, ordVars, animVars>>

\* --------------------------------------------- RotationMatrix, step by step
TurnAngles == {90 * q : q \in (0 - MaxTurn)..MaxTurn}
AxisNames == {"x", "y", "z"}
OtherNames == {"w", "X"}

\* c = np.cos(theta * np.pi / 180); s = np.sin(theta * np.pi / 180)
RotCall ==
  /\ rpc = "idle"
  /\ \E th \in TurnAngles, ax \in AxisNames \cup OtherNames :
        /\ theta' = th
        /\ axis_name' = ax
        /\ c' = CosDeg(th)
        /\ s' = SinDeg(th)
  /\ rotation_matrix' = InitialRotationMatrix
  /\ rpc' = "if_x"
  /\ UNCHANGED rret
  /\ UNCHANGED <<fkVars, ordVars, animVars>>

RotIfX ==
  /\ rpc = "if_x"
  /\ rotation_matrix' = IfX(axis_name, c, s, rotation_matrix)
  /\ rpc' = "if_y"
  /\ UNCHANGED <<theta, axis_name, c, s, rret>>
  /\ UNCHANGED <<fkVars, ordVars, animVars>>

RotIfYElifZ ==
  /\ rpc = "if_y"
  /\ rotation_matrix' = IfYElifZ(axis_name, c, s, rotation_matrix)
  /\ rpc' = "return"
  /\ UNCHANGED <<theta, axis_name, c, s, rret>>
  /\ UNCHANGED <<fkVars, ordVars, animVars>>

\* return rotation_matrix: reading the unassigned local raises
RotReturn ==
  /\ rpc = "return"
  /\ IF rotation_matrix = Unbound
       THEN /\ rpc' = "UnboundLocalError"
            /\ rret' = NoResult
       ELSE /\ rpc' = "returned"
            /\ rret' = rotation_matrix
  /\ UNCHANGED <<theta, axis_name, c, s, rotation_matrix>>
  /\ UNCHANGED <<fkVars, ordVars, animVars>>

\* ------------------------------------ the loop body over a 2-joint sub-chain
Joint(k, a, L) == [angle |-> a, axis |-> axes[k], len |-> L]

Reversed(js) == <<js[2], js[1]>>

RECURSIVE Chain(_, _)
\* T after the for loop has consumed the first n joints of js, from T = np.eye(4)
Chain(js, n) ==
  IF n = 0 THEN Eye4
  ELSE LoopBody(Chain(js, n - 1), js[n].angle, js[n].axis, js[n].len)

OrderCall ==
  /\ opc = "idle"
  /\ \E k \in 1..(Len(axes) - 1), a \in Angles, b \in Angles,
        L \in 0..MaxLen, M \in 0..MaxLen :
        joints' = <<Joint(k, a, L), Joint(k + 1, b, M)>>
  /\ opc' = "forward"
  /\ UNCHANGED <<e_fwd, e_rev>>
  /\ UNCHANGED <<fkVars, rotVars, animVars>>

OrderForward ==
  /\ opc = "forward"
  /\ e_fwd' = Position(Chain(joints, Len(joints)))
  /\ opc' = "reversed"
  /\ UNCHANGED <<joints, e_rev>>
  /\ UNCHANGED <<fkVars, rotVars, animVars>>

OrderReversed ==
  /\ opc = "reversed"
  /\ e_rev' = Position(Chain(Reversed(joints), Len(joints)))
  /\ opc' = "done"
  /\ UNCHANGED <<joints, e_fwd>>
  /\ UNCHANGED <<fkVars, rotVars, animVars>>

\* ------------------------------------------------------ __main__ and main()
\* The animated angles phi1 .. phi4 are kept in half degrees, because
\* phi / 2 is not an integer: the value 2 * a stands for a degrees.
\* A local frame is the pair of arguments of getLocalFrameMatrix, with the
\* rotation named by the arguments of RotationMatrix; a world transform is the
\* sequence of local frames whose product (@) it is.
L1 == 5
L2 == 8
L3 == 5

AnimatedOne(p) == <<2 * p, -20, 60, 0>>

\* phi1 = phi; phi2 = phi / 2; phi3 = phi / 2; phi4 = - phi/2
Animated(p) == <<2 * p, p, p, 0 - p>>

LocalFrame(a, ax, t) == [angle |-> a, axis |-> ax, t |-> t]

FrameCalls == <<"RotationMatrix", "getLocalFrameMatrix", "apply_transform">>

\* T_list results of line 265 are never read; only the call is recorded
MainGuard ==
  /\ apc = "start"
  /\ trace' = <<"forward_kinematics">>
  /\ apc' = "main"
  /\ UNCHANGED <<phi, phi1, phi2, phi3, phi4, frames, scene>>
  /\ UNCHANGED <<fkVars, rotVars, ordVars>>

MainEnter ==
  /\ apc = "main"
  /\ phi1' = 2 * 30
  /\ phi2' = 2 * (0 - 10)
  /\ phi3' = 2 * 30
  /\ phi4' = 0
  /\ apc' = "loop"
  /\ UNCHANGED <<phi, trace, frames, scene>>
  /\ UNCHANGED <<fkVars, rotVars, ordVars>>

TickAssign ==
  /\ apc = "loop"
  /\ phi + 1 < NumTicks
  /\ phi' = phi + 1
  /\ phi1' = Animated(phi')[1]
  /\ phi2' = Animated(phi')[2]
  /\ phi3' = Animated(phi')[3]
  /\ phi4' = Animated(phi')[4]
  /\ trace' = <<>>
  /\ apc' = "frames"
  /\ UNCHANGED <<frames, scene>>
  /\ UNCHANGED <<fkVars, rotVars, ordVars>>

TickFrames ==
  /\ apc = "frames"
  /\ LET T_01 == LocalFrame(phi1, "y", <<3, 2, 0>>)
         T_12 == LocalFrame(phi2, "z", <<L1, 0, 0>>)
         T_23 == LocalFrame(phi3, "y", <<L2, 0, 0>>)
         T_34 == LocalFrame(phi4, "z", <<L3, 0, 0>>)
     IN frames' = << <<T_01>>, <<T_01, T_12>>, <<T_01, T_12, T_23>>, <<T_34>> >>
  /\ trace' = trace \o FrameCalls \o FrameCalls \o FrameCalls \o FrameCalls
  /\ apc' = "show"
  /\ UNCHANGED <<phi, phi1, phi2, phi3, phi4, scene>>
  /\ UNCHANGED <<fkVars, rotVars, ordVars>>

\* plotter.clear(); plotter.add([Frame1, Frame2, Frame3, axes]); plotter.show(...)
TickShow ==
  /\ apc = "show"
  /\ scene' = <<frames[1], frames[2], frames[3]>>
  /\ trace' = trace \o <<"clear", "add", "show">>
  /\ apc' = "loop"
  /\ UNCHANGED <<phi, phi1, phi2, phi3, phi4, frames>>
  /\ UNCHANGED <<fkVars, rotVars, ordVars>>

MainExit ==
  /\ apc = "loop"
  /\ phi + 1 = NumTicks
  /\ trace' = <<"interactive", "close">>
  /\ apc' = "closed"
  /\ UNCHANGED <<phi, phi1, phi2, phi3, phi4, frames, scene>>
  /\ UNCHANGED <<fkVars, rotVars, ordVars>>

\* ---------------------------------------------------------- specifications
Init ==
  /\ pc = "idle" /\ Phi_list = <<>> /\ link_lengths = <<>> /\ i = 0
  /\ T = Eye4 /\ T_list = <<>> /\ ret = NoResult
  /\ rpc = "idle" /\ theta = 0 /\ axis_name = "x" /\ c = 0 /\ s = 0
  /\ rotation_matrix = Unbound /\ rret = NoResult
  /\ opc = "idle" /\ joints = <<>> /\ e_fwd = <<>> /\ e_rev = <<>>
  /\ apc = "start" /\ phi = 0 - 1 /\ phi1 = 0 /\ phi2 = 0 /\ phi3 = 0 /\ phi4 = 0
  /\ trace = <<>> /\ frames = <<>> /\ scene = <<>>

Next == Call \/ Iterate \/ Return
Spec == Init /\ [][Next]_vars

NextLong == CallLong \/ Iterate \/ Return
SpecLong == Init /\ [][NextLong]_vars

NextWide == CallWide \/ Iterate \/ Return
SpecWide == Init /\ [][NextWide]_vars

NextRot == RotCall \/ RotIfX \/ RotIfYElifZ \/ RotReturn
SpecRot == Init /\ [][NextRot]_vars

NextOrder == OrderCall \/ OrderForward \/ OrderReversed
SpecOrder == Init /\ [][NextOrder]_vars

NextAnim == MainGuard \/ MainEnter \/ TickAssign \/ TickFrames \/ TickShow \/ MainExit
SpecAnim == Init /\ [][NextAnim]_vars

\* ------------------------------------------------- vocabulary of the claims
I3 == << <<1, 0, 0>>, <<0, 1, 0>>, <<0, 0, 1>> >>

RotationBlock(M) ==
  << <<M[1][1], M[1][2], M[1][3]>>,
     <<M[2][1], M[2][2], M[2][3]>>,
     <<M[3][1], M[3][2], M[3][3]>> >>

TranslationColumn(M) == <<M[1][4], M[2][4], M[3][4]>>

Mul3Entry(A, B, r, k) == A[r][1] * B[1][k] + A[r][2] * B[2][k] + A[r][3] * B[3][k]

Mul3Row(A, B, r) == <<Mul3Entry(A, B, r, 1), Mul3Entry(A, B, r, 2), Mul3Entry(A, B, r, 3)>>

Mul3(A, B) == <<Mul3Row(A, B, 1), Mul3Row(A, B, 2), Mul3Row(A, B, 3)>>

Transpose3(A) ==
  << <<A[1][1], A[2][1], A[3][1]>>,
     <<A[1][2], A[2][2], A[3][2]>>,
     <<A[1][3], A[2][3], A[3][3]>> >>

Det3(A) ==
    A[1][1] * (A[2][2] * A[3][3] - A[2][3] * A[3][2])
  - A[1][2] * (A[2][1] * A[3][3] - A[2][3] * A[3][1])
  + A[1][3] * (A[2][1] * A[3][2] - A[2][2] * A[3][1])

\* A applied to the vector v, plus the vector w
ApplyAdd(A, v, w) ==
  <<A[1][1] * v[1] + A[1][2] * v[2] + A[1][3] * v[3] + w[1],
    A[2][1] * v[1] + A[2][2] * v[2] + A[2][3] * v[3] + w[2],
    A[3][1] * v[1] + A[3][2] * v[2] + A[3][3] * v[3] + w[3]>>

\* prev * Local, Local = [[R, (L, 0, 0)], [0, 0, 0, 1]], written by blocks
RightProductIs(M, prev, R, L) ==
  /\ RotationBlock(M) = Mul3(RotationBlock(prev), R)
  /\ TranslationColumn(M) = ApplyAdd(RotationBlock(prev), <<L, 0, 0>>, TranslationColumn(prev))
  /\ M[4] = <<0, 0, 0, 1>>

\* Local * prev, written by blocks
LeftProductIs(M, prev, R, L) ==
  /\ RotationBlock(M) = Mul3(R, RotationBlock(prev))
  /\ TranslationColumn(M) = ApplyAdd(R, TranslationColumn(prev), <<L, 0, 0>>)
  /\ M[4] = <<0, 0, 0, 1>>

IsRigid(M) ==
  /\ M[4] = <<0, 0, 0, 1>>
  /\ Mul3(RotationBlock(M), Transpose3(RotationBlock(M))) = I3
  /\ Det3(RotationBlock(M)) = 1

Count(seq, name) == Cardinality({k \in 1..Len(seq) : seq[k] = name})

RECURSIVE SumTo(_, _)
SumTo(Ls, n) == IF n = 0 THEN 0 ELSE SumTo(Ls, n - 1) + Ls[n]

\* ------------------------------------------------------------------ claims

\* C1: the four poses returned by forward_kinematics form a right-multiplied
\* chain: with pose_(-1) the identity, pose_i = pose_(i-1) * Local_i, where
\* Local_i has rotation block RotationMatrix(angles[i], axes[i]), translation
\* column (linkLengths[i], 0, 0) and bottom row [0, 0, 0, 1].  T_list holds
\* the chain while the loop runs, and the returned poses are its entries.
PosesFormRightMultipliedChain ==
  /\ pc \in {"loop", "returned"} =>
       /\ T_list[1] = Eye4
       /\ \A k \in 2..Len(T_list) :
            RightProductIs(T_list[k], T_list[k - 1],
                           RotationMatrix(Phi_list[k - 1], axes[k - 1]),
                           link_lengths[k - 1])
  /\ pc = "returned" =>
       \A k \in 1..4 : ret.poses[k] = T_list[k + 1]

\* C1 witness: a call has returned in which the other order of the product
\* would have given a different pose.
PosesChainOrderVisible ==
  /\ pc = "returned"
  /\ Len(Phi_list) = 4
  /\ \E k \in 2..4 :
       ~ LeftProductIs(ret.poses[k], ret.poses[k - 1],
                       RotationMatrix(Phi_list[k], axes[k]), link_lengths[k])

\* C2: angles [90, 0, 0, 0] with link lengths [1, 1, 1, 1] give the
\* end-effector position (0, 4, 0).
QuarterTurnScenarioEndsOnY ==
  (pc = "returned" /\ Phi_list = <<90, 0, 0, 0>> /\ link_lengths = <<1, 1, 1, 1>>)
    => ret.e = <<0, 4, 0>>

\* C3: with all four angles 0, every returned pose is a pure translation
\* along x: rotation block the identity, translation (L1 + ... + Li, 0, 0)
\* for the i-th pose, and the end-effector position is (L1+L2+L3+L4, 0, 0).
ZeroAnglesGivePureTranslations ==
  (pc = "returned" /\ Phi_list = <<0, 0, 0, 0>>) =>
    /\ \A k \in 1..4 :
         /\ RotationBlock(ret.poses[k]) = I3
         /\ TranslationColumn(ret.poses[k]) = <<SumTo(link_lengths, k), 0, 0>>
         /\ ret.poses[k][4] = <<0, 0, 0, 1>>
    /\ ret.e = <<SumTo(link_lengths, 4), 0, 0>>

\* C3 witness: the scenario with link lengths [4, 3, 2, 2] has returned (11, 0, 0).
ZeroAnglesElevenReached ==
  /\ pc = "returned"
  /\ Phi_list = <<0, 0, 0, 0>>
  /\ link_lengths = <<4, 3, 2, 2>>
  /\ ret.e = <<11, 0, 0>>

\* C4: a call whose number of angles differs from the number of axes ends in
\* an error and returns no poses and no end-effector position (any raised
\* error is accepted here as the configuration error).
ArityMismatchNeverReturns ==
  (Len(Phi_list) # Len(axes) /\ pc \notin {"idle", "loop"}) =>
    /\ pc # "returned"
    /\ ret = NoResult

\* C5: for a 2-joint sub-chain whose joint angles are both nonzero, the given
\* order and the reversed order give different end-effector positions.
NonzeroAnglesOrderAlwaysMatters ==
  (opc = "done" /\ joints[1].angle # 0 /\ joints[2].angle # 0) => e_fwd # e_rev

\* C5 as amended: for two consecutive joints whose link lengths are both
\* positive and whose angles are both not multiples of 180 degrees, the given
\* order and the reversed order give different end-effector positions.
OffAxisPositiveLinksOrderMatters ==
  (/\ opc = "done"
   /\ joints[1].len > 0 /\ joints[2].len > 0
   /\ joints[1].angle % 180 # 0 /\ joints[2].angle % 180 # 0) => e_fwd # e_rev

\* C5 witness: both orders solved for two quarter turns and unit links.
OffAxisOrderSolved ==
  /\ opc = "done"
  /\ joints[1].angle = 90 /\ joints[2].angle = 90
  /\ joints[1].len = 1 /\ joints[2].len = 1
  /\ e_fwd # e_rev

\* C6: for every axis in {x, y, z} RotationMatrix returns the elementary
\* rotation of that axis, and after the dispatch the matrix built for the
\* axis has not been replaced by the matrix of another axis.
DispatchReturnsElementaryRotation ==
  (axis_name \in AxisNames /\ rpc \in {"return", "returned", "UnboundLocalError"}) =>
    LET cc == CosDeg(theta)
        ss == SinDeg(theta)
        expected == CASE axis_name = "x" -> << <<1, 0, 0>>, <<0, cc, 0 - ss>>, <<0, ss, cc>> >>
                      [] axis_name = "y" -> << <<cc, 0, ss>>, <<0, 1, 0>>, <<0 - ss, 0, cc>> >>
                      [] axis_name = "z" -> << <<cc, 0 - ss, 0>>, <<ss, cc, 0>>, <<0, 0, 1>> >>
    IN /\ rotation_matrix = expected
       /\ rpc # "UnboundLocalError"
       /\ rpc = "returned" => rret = expected

\* C6 witness: the call for axis x and 90 degrees has returned the x rotation.
DispatchReturnedXQuarterTurn ==
  /\ rpc = "returned"
  /\ axis_name = "x"
  /\ theta = 90
  /\ rret = << <<1, 0, 0>>, <<0, 0, 0 - 1>>, <<0, 1, 0>> >>

\* C7: RotationMatrix called with an axis name outside {x, y, z} never
\* returns a matrix; the call ends in an error.
UnknownAxisRaises ==
  (axis_name \notin AxisNames /\ rpc \notin {"idle", "if_x", "if_y", "return"}) =>
    /\ rpc = "UnboundLocalError"
    /\ rret = NoResult

\* C7 witness: the call for axis name 'w' has ended in the error.
UnknownAxisRaised ==
  /\ rpc = "UnboundLocalError"
  /\ axis_name = "w"
  /\ rotation_matrix = Unbound

\* C8: every tick of the animation performs exactly one chain-solve call
\* (forward_kinematics) and then one render call (show), in that order.
EveryTickSolvesThenRenders ==
  (apc = "loop" /\ phi >= 0) =>
    /\ Count(trace, "forward_kinematics") = 1
    /\ Count(trace, "show") = 1
    /\ \A a \in 1..Len(trace), b \in 1..Len(trace) :
         (trace[a] = "forward_kinematics" /\ trace[b] = "show") => a < b

\* C9: between two consecutive ticks exactly one of phi1 .. phi4 changes.
ExactlyOneAngleChangesPerTick ==
  [][(apc = "loop" /\ apc' = "frames" /\ phi >= 0) =>
       Cardinality({k \in 1..4 :
          <<phi1, phi2, phi3, phi4>>[k] # <<phi1', phi2', phi3', phi4'>>[k]}) = 1]_vars

\* C9 as amended: between two consecutive ticks all four angles change:
\* phi1 grows by 1 degree, phi2 and phi3 by half a degree, and phi4 falls by
\* half a degree (the variables hold half degrees).
AllFourAnglesChangePerTick ==
  [][(apc = "loop" /\ apc' = "frames" /\ phi >= 0) =>
       /\ phi1' = phi1 + 2
       /\ phi2' = phi2 + 1
       /\ phi3' = phi3 + 1
       /\ phi4' = phi4 - 1]_vars

\* C9 witness: the second tick has assigned its angles.
SecondTickAssigned ==
  /\ apc = "frames"
  /\ phi = 1
  /\ <<phi1, phi2, phi3, phi4>> = <<2, 1, 1, 0 - 1>>

\* C10: every pose of the chain is a rigid transform: bottom row [0, 0, 0, 1],
\* rotation block R with R * R^T = I and determinant +1.
EveryPoseIsRigid ==
  /\ pc \in {"loop", "returned"} => \A k \in 1..Len(T_list) : IsRigid(T_list[k])
  /\ pc = "returned" => \A k \in 1..4 : IsRigid(ret.poses[k])

\* C10 witness: a call has returned whose last pose is rotated about all
\* three axes and displaced.
RigidPoseRotatedReached ==
  /\ pc = "returned"
  /\ Phi_list = <<90, 90, 90, 90>>
  /\ link_lengths = <<1, 1, 1, 1>>
  /\ RotationBlock(ret.poses[4]) # I3

====
